---------------------------- MODULE Spec2Model ----------------------------
(***************************************************************************)
(* State-machine model of StatisticalAgreement/agreement.py: one Agreement *)
(* instance (its bound samples, criteria and the Estimator attributes its  *)
(* three estimation procedures store), the report operation show(), and    *)
(* the module-level allowance helper cp_tdi_approximation.                 *)
(*                                                                         *)
(* Floating-point results are symbolic terms (formula name + the operands  *)
(* the code passes), except where the claims need a number: the relative   *)
(* bias squared is an exact rational of the sample sums.  Python-level     *)
(* exceptions are modelled exactly: int/int division by zero raises        *)
(* ZeroDivisionError, a numpy division by zero yields inf/nan and goes on, *)
(* a missing attribute raises AttributeError.                              *)
(*                                                                         *)
(* Units: probabilities and tolerances are integers in hundredths          *)
(* (0.9 is 90), so that == on them is integer equality.                    *)
(***************************************************************************)
EXTENDS Integers, Sequences, FiniteSets

VARIABLES
    x, y,               \* self._x, self._y : the paired samples
    n,                  \* self._n = len(x)
    delta_criterion,    \* self._delta_criterion (hundredths)
    pi_criterion,       \* self._pi_criterion (hundredths)
    attrs,              \* the Estimator attributes set on the instance so far
    res,                \* self.res : the report table built by show()
    stdout,             \* what show() has printed
    trace,              \* the calls made on the instance, with their outcome
    helper              \* last call of the module-level cp_tdi_approximation

vars == <<x, y, n, delta_criterion, pi_criterion, attrs, res, stdout, trace, helper>>

---------------------------------------------------------------------------
(* Bounds of the model *)

\* longest sample
MaxN == 4
\* calls made on one instance
MaxTrace == 4
\* largest rbs handed to the helper, in halves (17 is 8.5)
MaxRbsHalves == 17

---------------------------------------------------------------------------
(* Module constants, agreement.py lines 15-20 *)

\* ALPHA = 0.05, in hundredths
ALPHA == 5
\* CP_DELTA = 0.5, in hundredths
CP_DELTA == 50
\* TDI_PI = 0.9, in hundredths
TDI_PI == 90
\* CP_ALLOWANCE = 0.9, in hundredths
CP_ALLOWANCE == 90
\* TDI_ALLOWANCE = 10
TDI_ALLOWANCE == 10
\* WITHIN_SAMPLE_DEVIATION = 0.15, in hundredths
WITHIN_SAMPLE_DEVIATION == 15

---------------------------------------------------------------------------
(* Values *)

\* np.nan passed as a literal: the field is undefined
NaN == [kind |-> "nan", f |-> "", args |-> <<>>, tf |-> "", side |-> "",
        num |-> 0, den |-> 0]

\* a float computed by formula f from operands args
Expr(f, args) == [kind |-> "expr", f |-> f, args |-> args, tf |-> "", side |-> "",
                  num |-> 0, den |-> 0]

\* a float known exactly as num/den, den >= 0; den = 0 is +inf, -inf or nan
\* by the sign of num, as numpy's division gives
Rat(f, num, den) == [kind |-> "rat", f |-> f, args |-> <<>>, tf |-> "", side |-> "",
                     num |-> num, den |-> den]

\* a Python bool
Bool(b) == [kind |-> "bool", f |-> "", args |-> <<>>, tf |-> "", side |-> "",
            num |-> (IF b THEN 1 ELSE 0), den |-> 1]

\* float comparison v <= tn/td for an exact v (False on nan and +inf)
LeqRat(v, tn, td) ==
    IF v.kind # "rat" THEN FALSE
    ELSE IF v.den > 0 THEN v.num * td <= tn * v.den
    ELSE v.num < 0

RECURSIVE SumSeq(_)
SumSeq(s) == IF s = <<>> THEN 0 ELSE Head(s) + SumSeq(Tail(s))

\* np.sum(a * b)
SumProd(a, b) == SumSeq([i \in 1..Len(a) |-> a[i] * b[i]])

---------------------------------------------------------------------------
(* classutils (Estimator, TransformEstimator, TransformFunc) *)

Estimator(name, estimator, variance, limit) ==
    [name |-> name, estimator |-> estimator, variance |-> variance, limit |-> limit]

\* Estimator.to_series(): the three fields the record bundles
to_series(e) == [estimator |-> e.estimator, variance |-> e.variance, limit |-> e.limit]

\* TransformEstimator(est, var, tf).ci(alpha, side, n): the one-sided bound,
\* mapped back to the original scale
ci(est, var, tf, alpha, side, nn) ==
    [kind |-> "expr", f |-> "ci", args |-> <<est, var, alpha, nn>>, tf |-> tf,
     side |-> side, num |-> 0, den |-> 0]

\* TransformFunc.Z.apply(v) = atanh(v)
Z_apply(v) == Expr("atanh", <<v>>)

---------------------------------------------------------------------------
(* The allowance helper *)

\* faulty variant: the 0.8 level given the threshold of the 0.9 level
cp_tdi_approximation_m(rbs, cp_allowance) ==
    \/ cp_allowance = 75 /\ LeqRat(rbs, 1, 2)
    \/ cp_allowance = 80 /\ LeqRat(rbs, 1, 1)
    \/ cp_allowance = 85 /\ LeqRat(rbs, 2, 1)
    \/ cp_allowance = 90 /\ LeqRat(rbs, 1, 1)
    \/ cp_allowance = 95 /\ LeqRat(rbs, 1, 2)

cp_tdi_approximation(rbs, cp_allowance) ==
    IF cp_allowance = 75 /\ LeqRat(rbs, 1, 2) THEN TRUE
    ELSE IF cp_allowance = 80 /\ LeqRat(rbs, 8, 1) THEN TRUE
    ELSE IF cp_allowance = 85 /\ LeqRat(rbs, 2, 1) THEN TRUE
    ELSE IF cp_allowance = 90 /\ LeqRat(rbs, 1, 1) THEN TRUE
    ELSE IF cp_allowance = 95 /\ LeqRat(rbs, 1, 2) THEN TRUE
    ELSE FALSE

---------------------------------------------------------------------------
(* The Agreement instance *)

Self == [x |-> x, y |-> y, n |-> n, delta |-> delta_criterion,
         pi |-> pi_criterion, attrs |-> attrs]

NoAttrs == [k \in {} |-> NaN]

\* self.<k> = e
SetAttr(a, k, e) == [j \in (DOMAIN a) \cup {k} |-> IF j = k THEN e ELSE a[j]]

Data(self) == <<self.x, self.y>>


---------------------------------------------------------------------------
(* Agreement.ccc_approximation *)

\* lines 48-67: accuracy, Lower limit through Logit
acc_estimator(self) ==
    LET acc_hat == Expr("acc_hat", Data(self))
        var_acc_hat == Expr("var_acc_hat", <<self.x, self.y, self.n>>)
    IN  Estimator("acc", acc_hat, var_acc_hat,
                  ci(acc_hat, var_acc_hat, "Logit", ALPHA, "Lower", self.n))

\* lines 69-76: precision, Lower limit through Z
rho_estimator(self) ==
    LET rho_hat == Expr("rho_hat", Data(self))
        var_rho_hat == Expr("var_rho_hat", <<self.x, self.y, self.n>>)
    IN  Estimator("rho", rho_hat, var_rho_hat,
                  ci(rho_hat, var_rho_hat, "Z", ALPHA, "Lower", self.n))

\* lines 78-88: ccc = acc * rho, Lower limit through Z
ccc_estimator(self) ==
    LET ccc_hat == Expr("acc_hat*rho_hat", Data(self))
        var_ccc_hat == Expr("var_ccc_hat", <<self.x, self.y, self.n>>)
    IN  Estimator("ccc", ccc_hat, var_ccc_hat,
                  ci(ccc_hat, var_ccc_hat, "Z", ALPHA, "Lower", self.n))

\* _acc and _rho are stored before line 79 divides the int 1 by the int n - 2;
\* the divisions by n - 2 and n - 3 of lines 59 and 69 are numpy's and give inf
ccc_approximation(self) ==
    LET a1 == SetAttr(self.attrs, "_acc", acc_estimator(self))
        a2 == SetAttr(a1, "_rho", rho_estimator(self))
    IN  IF self.n - 2 = 0
        THEN [attrs |-> a2, exc |-> "ZeroDivisionError"]
        ELSE [attrs |-> SetAttr(a2, "_ccc", ccc_estimator(self)), exc |-> "none"]

---------------------------------------------------------------------------
(* Agreement.ccc_ustat *)

\* faulty variant: the result stored under the name ccc_approximation uses
ccc_ustat_attr_m == "_ccc"

\* the attribute line 133 assigns
ccc_ustat_attr == "_ccc_ustat"

\* faulty variant: the estimate of ccc_approximation reused when it is there
ccc_ustat_estimator_m(self) ==
    LET ccc_hat == IF "_ccc" \in DOMAIN self.attrs
                   THEN self.attrs["_ccc"].estimator
                   ELSE Expr("h/g", Data(self))
        var_ccc_hat == Expr("var_ccc_hat_ustat", <<self.x, self.y, self.n>>)
        var_z_hat == Expr("var_z_hat", <<self.x, self.y, self.n>>)
    IN  Estimator("ccc_ustat", ccc_hat, var_ccc_hat,
                  ci(ccc_hat, var_z_hat, "Z", ALPHA, "Lower", self.n))

\* lines 128-138: ccc = h/g, its variance, Lower limit through Z from the
\* z-scale variance
ccc_ustat_estimator(self) ==
    LET ccc_hat == Expr("h/g", Data(self))
        var_ccc_hat == Expr("var_ccc_hat_ustat", <<self.x, self.y, self.n>>)
        var_z_hat == Expr("var_z_hat", <<self.x, self.y, self.n>>)
    IN  Estimator("ccc_ustat", ccc_hat, var_ccc_hat,
                  ci(ccc_hat, var_z_hat, "Z", ALPHA, "Lower", self.n))

\* lines 139-144: the z-scale value with its variance, no limit
z_ustat_estimator(self) ==
    Estimator("z_ustat", Z_apply(Expr("h/g", Data(self))),
              Expr("var_z_hat", <<self.x, self.y, self.n>>), NaN)

\* line 106 divides the int -4 by n, line 108 by n*(n-1); every later division
\* has a numpy operand
ccc_ustat(self) ==
    IF self.n = 0 \/ self.n * (self.n - 1) = 0
    THEN [attrs |-> self.attrs, exc |-> "ZeroDivisionError"]
    ELSE [attrs |-> SetAttr(SetAttr(self.attrs, ccc_ustat_attr, ccc_ustat_estimator(self)),
                            "_z_ustat", z_ustat_estimator(self)),
          exc |-> "none"]

---------------------------------------------------------------------------
(* Agreement.cp_tdi_approximation *)

\* faulty variant: a stored msd is updated instead of recomputed
msd_estimator_acc(self) ==
    LET eps_sq_hat == IF "_msd" \in DOMAIN self.attrs
                      THEN Expr("update", <<self.attrs["_msd"].estimator>>)
                      ELSE Expr("eps_sq_hat", <<self.x, self.y, self.n>>)
        var_esp_hat == Expr("var_esp_hat", <<self.x, self.y, self.n>>)
    IN  Estimator("msd", eps_sq_hat, var_esp_hat,
                  ci(eps_sq_hat, var_esp_hat, "Log", ALPHA, "Upper", self.n))

\* faulty variant: the Lower limit taken
msd_estimator_lower(self) ==
    LET eps_sq_hat == Expr("eps_sq_hat", <<self.x, self.y, self.n>>)
        var_esp_hat == Expr("var_esp_hat", <<self.x, self.y, self.n>>)
    IN  Estimator("msd", eps_sq_hat, var_esp_hat,
                  ci(eps_sq_hat, var_esp_hat, "Log", ALPHA, "Lower", self.n))

\* lines 154-162: mean squared deviation, Upper limit through Log
msd_estimator(self) ==
    LET eps_sq_hat == Expr("eps_sq_hat", <<self.x, self.y, self.n>>)
        var_esp_hat == Expr("var_esp_hat", <<self.x, self.y, self.n>>)
    IN  Estimator("msd", eps_sq_hat, var_esp_hat,
                  ci(eps_sq_hat, var_esp_hat, "Log", ALPHA, "Upper", self.n))

\* lines 149-152, 164: rbs_hat = mu_d^2 / s_sq_hat_d with mu_d = sum(D)/n and
\* s_sq_hat_d = n/(n-3) * (n*sum(D^2) - sum(D)^2)/n^2, in exact arithmetic
rbs_hat(self) ==
    LET sd == SumSeq(self.x) - SumSeq(self.y)
        sdd == SumProd(self.x, self.x) + SumProd(self.y, self.y)
               - 2 * SumProd(self.x, self.y)
    IN  Rat("rbs_hat", sd * sd * (self.n - 3), self.n * (self.n * sdd - sd * sd))

\* lines 164-170: relative bias squared, a point estimate only
rbs_estimator(self) == Estimator("rbs", rbs_hat(self), NaN, NaN)

\* lines 172-186: coverage probability at the delta criterion, Lower limit
\* through Logit
cp_estimator(self) ==
    LET cp_hat == Expr("ncx2.cdf", <<self.delta, rbs_hat(self)>>)
        var_cp_hat == Expr("var_cp_hat", <<self.x, self.y, self.n, self.delta>>)
    IN  Estimator("cp", cp_hat, var_cp_hat,
                  ci(cp_hat, var_cp_hat, "Logit", ALPHA, "Lower", self.n))

\* faulty variant: the limit taken from the msd estimate
tdi_estimator_m(self) ==
    Estimator("tdi",
              Expr("coeff_tdi*sqrt", <<self.pi, self.attrs["_msd"].estimator>>),
              NaN,
              Expr("coeff_tdi*sqrt", <<self.pi, self.attrs["_msd"].estimator>>))

\* lines 188-194: coeff_tdi * sqrt of the stored msd estimate, and of the
\* stored msd limit
tdi_estimator(self) ==
    Estimator("tdi",
              Expr("coeff_tdi*sqrt", <<self.pi, self.attrs["_msd"].estimator>>),
              NaN,
              Expr("coeff_tdi*sqrt", <<self.pi, self.attrs["_msd"].limit>>))

\* line 151 divides the int n by the int n - 3 and line 155 the int 2 by the
\* int n - 2, both before the first Estimator is stored
Agreement_cp_tdi_approximation(self) ==
    IF self.n - 3 = 0 \/ self.n - 2 = 0
    THEN [attrs |-> self.attrs, exc |-> "ZeroDivisionError"]
    ELSE LET a1 == SetAttr(self.attrs, "_msd", msd_estimator(self))
             a2 == SetAttr(a1, "_rbs", rbs_estimator(self))
             a3 == SetAttr(a2, "_cp", cp_estimator(self))
             a4 == SetAttr(a3, "_tdi", tdi_estimator([self EXCEPT !.attrs = a3]))
         IN  [attrs |-> a4, exc |-> "none"]

---------------------------------------------------------------------------
(* Agreement.show *)

\* line 199: the columns of the table
Columns == <<"estimator", "variance", "limit", "criterion", "allowance">>

\* lines 201-208: the attributes read, in row order
ShowAttrs == <<"_acc", "_rho", "_ccc", "_ccc_ustat", "_msd", "_rbs", "_cp", "_tdi">>

\* res.loc[e.name, :] = e.to_series(): a new row, the columns the series
\* lacks left NaN
NewRow(e) ==
    LET s == to_series(e)
    IN  [key |-> e.name,
         cells |-> [c \in {Columns[i] : i \in 1..Len(Columns)} |->
                        IF c \in DOMAIN s THEN s[c] ELSE NaN]]

\* res.loc[key, col] = v: sets the cell, adding the row when the key is new
SetCell(rows, key, col, v) ==
    IF \E i \in 1..Len(rows) : rows[i].key = key
    THEN [i \in 1..Len(rows) |->
              IF rows[i].key = key
              THEN [rows[i] EXCEPT !.cells[col] = v]
              ELSE rows[i]]
    ELSE Append(rows, [key |-> key,
                       cells |-> [c \in {Columns[i] : i \in 1..Len(Columns)} |->
                                      IF c = col THEN v ELSE NaN]])

\* the first attribute of ShowAttrs the instance lacks (Len + 1: none)
FirstMissing(a) ==
    LET missing == {i \in 1..Len(ShowAttrs) : ShowAttrs[i] \notin DOMAIN a}
    IN  IF missing = {} THEN Len(ShowAttrs) + 1
        ELSE CHOOSE i \in missing : \A j \in missing : i <= j

\* faulty variant: the tdi allowance also written on the msd row
SetAllowances_m(self, rows) ==
    LET a == self.attrs
        wsd == Rat("1-wsd^2", 10000 - WITHIN_SAMPLE_DEVIATION * WITHIN_SAMPLE_DEVIATION, 10000)
        r1 == SetCell(rows, a["_ccc"].name, "allowance", wsd)
        r2 == SetCell(r1, a["_ccc_ustat"].name, "allowance", wsd)
        r3 == SetCell(r2, a["_rbs"].name, "allowance",
                      Bool(cp_tdi_approximation(a["_rbs"].estimator, CP_ALLOWANCE)))
        r4 == SetCell(r3, a["_cp"].name, "allowance", Rat("", CP_ALLOWANCE, 100))
        r5 == SetCell(r4, a["_tdi"].name, "allowance", Rat("", TDI_ALLOWANCE, 1))
    IN  SetCell(r5, a["_msd"].name, "allowance", Rat("", TDI_ALLOWANCE, 1))

\* lines 210-214: the allowance cells
SetAllowances(self, rows) ==
    LET a == self.attrs
        wsd == Rat("1-wsd^2", 10000 - WITHIN_SAMPLE_DEVIATION * WITHIN_SAMPLE_DEVIATION, 10000)
        r1 == SetCell(rows, a["_ccc"].name, "allowance", wsd)
        r2 == SetCell(r1, a["_ccc_ustat"].name, "allowance", wsd)
        r3 == SetCell(r2, a["_rbs"].name, "allowance",
                      Bool(cp_tdi_approximation(a["_rbs"].estimator, CP_ALLOWANCE)))
        r4 == SetCell(r3, a["_cp"].name, "allowance", Rat("", CP_ALLOWANCE, 100))
    IN  SetCell(r4, a["_tdi"].name, "allowance", Rat("", TDI_ALLOWANCE, 1))

\* lines 216-217: the criterion cells
SetCriteria(self, rows) ==
    LET a == self.attrs
        r1 == SetCell(rows, a["_cp"].name, "criterion", Rat("", self.delta, 100))
    IN  SetCell(r1, a["_tdi"].name, "criterion", Rat("", self.pi, 100))

\* self.res before show() was ever called
NoRes == [set |-> FALSE, columns |-> <<>>, rows |-> <<>>]

\* faulty variant: show() written to skip the attributes the instance lacks
show_m(self, out) ==
    LET have == SelectSeq(ShowAttrs, LAMBDA k : k \in DOMAIN self.attrs)
        rows == [i \in 1..Len(have) |-> NewRow(self.attrs[have[i]])]
    IN  [res |-> [set |-> TRUE, columns |-> Columns, rows |-> rows],
         stdout |-> Append(out, "table"), exc |-> "none"]

\* show(): a fresh table, one row per attribute until one is missing
\* (AttributeError), then the allowance and criterion cells, then the two
\* prints; scipy's shapiro raises ValueError on fewer than 3 observations
show(self, out) ==
    LET k == FirstMissing(self.attrs)
        rows == [i \in 1..(k - 1) |-> NewRow(self.attrs[ShowAttrs[i]])]
    IN  IF k <= Len(ShowAttrs)
        THEN [res |-> [set |-> TRUE, columns |-> Columns, rows |-> rows],
              stdout |-> out, exc |-> "AttributeError"]
        ELSE LET full == SetCriteria(self, SetAllowances(self, rows))
                 table == [set |-> TRUE, columns |-> Columns, rows |-> full]
             IN  IF self.n < 3
                 THEN [res |-> table, stdout |-> Append(out, "table"),
                       exc |-> "ValueError"]
                 ELSE [res |-> table, stdout |-> Append(Append(out, "table"), "shapiro"),
                       exc |-> "none"]

---------------------------------------------------------------------------
(* The inputs *)

Ramp(k) == [i \in 1..k |-> i]

\* paired samples of every length up to MaxN: identical, offset by one,
\* noisy, reversed, and a constant first series
Samples ==
    UNION {{ <<Ramp(k), Ramp(k)>>,
             <<Ramp(k), [i \in 1..k |-> i + 1]>>,
             <<Ramp(k), [i \in 1..k |-> i + (i % 2)]>>,
             <<Ramp(k), [i \in 1..k |-> k + 1 - i]>>,
             <<[i \in 1..k |-> 1], Ramp(k)>> } : k \in 0..MaxN}

\* (delta, pi): the defaults of __init__ and one other choice
Criteria == {<<CP_DELTA, TDI_PI>>, <<100, 95>>}

\* rbs values handed to the helper: 0, 0.5, ... in halves, and nan, +inf, -inf
RbsInputs ==
    {Rat("", h, 2) : h \in 0..MaxRbsHalves}
        \cup {Rat("", 0, 0), Rat("", 1, 0), Rat("", -1, 0), NaN}

\* allowance levels handed to the helper, in hundredths
AllowanceInputs == {70, 75, 80, 85, 90, 95, 100}

NoCall == [called |-> FALSE, rbs |-> NaN, cp_allowance |-> 0, ret |-> FALSE]

---------------------------------------------------------------------------
(* The state machine *)

\* Agreement.__init__
Init ==
    /\ \E s \in Samples : x = s[1] /\ y = s[2]
    /\ n = Len(x)
    /\ \E c \in Criteria : delta_criterion = c[1] /\ pi_criterion = c[2]
    /\ attrs = NoAttrs
    /\ res = NoRes
    /\ stdout = <<>>
    /\ trace = <<>>
    /\ helper = NoCall

Called(op, exc) == trace' = Append(trace, [op |-> op, exc |-> exc])

CallCccApproximation ==
    /\ Len(trace) < MaxTrace
    /\ LET r == ccc_approximation(Self)
       IN  attrs' = r.attrs /\ Called("ccc_approximation", r.exc)
    /\ UNCHANGED <<x, y, n, delta_criterion, pi_criterion, res, stdout, helper>>

CallCccUstat ==
    /\ Len(trace) < MaxTrace
    /\ LET r == ccc_ustat(Self)
       IN  attrs' = r.attrs /\ Called("ccc_ustat", r.exc)
    /\ UNCHANGED <<x, y, n, delta_criterion, pi_criterion, res, stdout, helper>>

CallCpTdiApproximation ==
    /\ Len(trace) < MaxTrace
    /\ LET r == Agreement_cp_tdi_approximation(Self)
       IN  attrs' = r.attrs /\ Called("cp_tdi_approximation", r.exc)
    /\ UNCHANGED <<x, y, n, delta_criterion, pi_criterion, res, stdout, helper>>

CallShow ==
    /\ Len(trace) < MaxTrace
    /\ LET r == show(Self, stdout)
       IN  res' = r.res /\ stdout' = r.stdout /\ Called("show", r.exc)
    /\ UNCHANGED <<x, y, n, delta_criterion, pi_criterion, attrs, helper>>

Next ==
    \/ CallCccApproximation
    \/ CallCccUstat
    \/ CallCpTdiApproximation
    \/ CallShow

Spec == Init /\ [][Next]_vars

\* the helper called on its own, on any rbs and allowance level
CallHelper ==
    /\ \E r \in RbsInputs, a \in AllowanceInputs :
           helper' = [called |-> TRUE, rbs |-> r, cp_allowance |-> a,
                      ret |-> cp_tdi_approximation(r, a)]
    /\ UNCHANGED <<x, y, n, delta_criterion, pi_criterion, attrs, res, stdout, trace>>

NextHelper == CallHelper

SpecHelper == Init /\ [][NextHelper]_vars

---------------------------------------------------------------------------
(* Vocabulary of the properties *)

Procs == {"ccc_approximation", "ccc_ustat", "cp_tdi_approximation"}

\* the Estimators each procedure is specified to produce
Own(p) ==
    IF p = "ccc_approximation" THEN {"_acc", "_rho", "_ccc"}
    ELSE IF p = "ccc_ustat" THEN {"_ccc_ustat", "_z_ustat"}
    ELSE IF p = "cp_tdi_approximation" THEN {"_msd", "_rbs", "_cp", "_tdi"}
    ELSE {}

AllEstimators == UNION {Own(p) : p \in Procs}

Last == trace[Len(trace)]

\* p succeeded in a call made before the i-th
SucceededBefore(p, i) ==
    \E j \in 1..(i - 1) : trace[j].op = p /\ trace[j].exc = "none"

\* the procedure p run on the instance self
Run(p, self) ==
    IF p = "ccc_approximation" THEN ccc_approximation(self)
    ELSE IF p = "ccc_ustat" THEN ccc_ustat(self)
    ELSE Agreement_cp_tdi_approximation(self)

\* this step is a call of op
IsCall(op) == Len(trace') = Len(trace) + 1 /\ trace'[Len(trace')].op = op

Defined(v) == v.kind # "nan"

\* the side a limit was computed on; coeff_tdi * sqrt(.) is increasing and
\* keeps the side of its operand
Direction(v) ==
    IF v.f = "ci" THEN v.side
    ELSE IF v.f = "coeff_tdi*sqrt" THEN v.args[2].side
    ELSE ""

\* no zero variance, no perfect or zero correlation, no constant difference
NonDegenerate ==
    LET sx == SumSeq(x)
        sy == SumSeq(y)
        sxx == n * SumProd(x, x) - sx * sx
        syy == n * SumProd(y, y) - sy * sy
        sxy == n * SumProd(x, y) - sx * sy
        sd == sx - sy
        vd == n * (SumProd(x, x) + SumProd(y, y) - 2 * SumProd(x, y)) - sd * sd
    IN  sxx > 0 /\ syy > 0 /\ vd > 0 /\ sxy # 0 /\ sxy * sxy < sxx * syy

---------------------------------------------------------------------------
(* C1 *)

AllowanceTable == {<<75, 1, 2>>, <<80, 8, 1>>, <<85, 2, 1>>, <<90, 1, 1>>, <<95, 1, 2>>}

\* C1: the helper returns true iff the allowance level is one of 0.75, 0.8,
\* 0.85, 0.9, 0.95 and rbs <= that level's threshold (0.5, 8, 2, 1, 0.5); for
\* a level outside the table it returns false whatever rbs is.
C1_HelperTable ==
    helper.called =>
        /\ helper.ret <=>
               \E t \in AllowanceTable :
                   /\ helper.cp_allowance = t[1]
                   /\ helper.rbs.kind = "rat"
                   /\ \/ helper.rbs.den > 0 /\ helper.rbs.num * t[3] <= t[2] * helper.rbs.den
                      \/ helper.rbs.den = 0 /\ helper.rbs.num < 0
        /\ (helper.cp_allowance \notin {t[1] : t \in AllowanceTable}) => ~helper.ret

\* the 0.8 level accepted an rbs of exactly 8
C1_Witness ==
    /\ helper.called /\ helper.cp_allowance = 80 /\ helper.ret
    /\ helper.rbs = Rat("", 16, 2)

---------------------------------------------------------------------------
(* C2 *)

\* C2: a procedure that fails leaves none of its Estimators visible on the
\* instance (each procedure either stores all of its Estimators or none).
C2_FailsAtomically ==
    (trace # <<>> /\ Last.op \in Procs /\ Last.exc # "none")
        => Own(Last.op) \cap DOMAIN attrs = {}

---------------------------------------------------------------------------
(* C3 *)

\* C3: show() completes only when each of the three procedures has succeeded
\* before it; while one of them has not, show() fails with AttributeError,
\* and a show() that failed so printed no table.
C3_ShowNeedsAllThree ==
    /\ \A i \in 1..Len(trace) :
           trace[i].op = "show" =>
               /\ trace[i].exc = "none" => \A p \in Procs : SucceededBefore(p, i)
               /\ (\E p \in Procs : ~SucceededBefore(p, i))
                      => trace[i].exc = "AttributeError"
    /\ Cardinality({i \in 1..Len(stdout) : stdout[i] = "table"})
           = Cardinality({i \in 1..Len(trace) :
                              trace[i].op = "show" /\ trace[i].exc # "AttributeError"})

\* show() completed, after the three procedures in an order other than the
\* rows' order
C3_Witness ==
    /\ Len(trace) = 4 /\ Last.op = "show" /\ Last.exc = "none"
    /\ trace[1].op = "cp_tdi_approximation" /\ trace[2].op = "ccc_ustat"
    /\ Len(stdout) = 2

---------------------------------------------------------------------------
(* C4 *)

\* the procedures that were called, run on a fresh instance in one fixed order
Canon(S) ==
    LET fresh == [Self EXCEPT !.attrs = NoAttrs]
        a1 == IF "ccc_approximation" \in S
              THEN ccc_approximation(fresh).attrs ELSE NoAttrs
        a2 == IF "ccc_ustat" \in S
              THEN ccc_ustat([fresh EXCEPT !.attrs = a1]).attrs ELSE a1
    IN  IF "cp_tdi_approximation" \in S
        THEN Agreement_cp_tdi_approximation([fresh EXCEPT !.attrs = a2]).attrs
        ELSE a2

\* C4: whatever the order (and number) of the calls made, the stored
\* Estimators are those of the fixed order ccc_approximation, ccc_ustat,
\* cp_tdi_approximation; and what a procedure would store now is what it
\* stores on a fresh instance, so it reads no result of another procedure.
C4_OrderIndependent ==
    /\ attrs = Canon({trace[i].op : i \in 1..Len(trace)} \cap Procs)
    /\ \A p \in Procs :
           LET now == Run(p, Self)
               fresh == Run(p, [Self EXCEPT !.attrs = NoAttrs])
           IN  /\ now.exc = fresh.exc
               /\ \A k \in Own(p) :
                      /\ k \in DOMAIN now.attrs <=> k \in DOMAIN fresh.attrs
                      /\ k \in DOMAIN fresh.attrs => now.attrs[k] = fresh.attrs[k]

\* the three procedures succeeded in the reverse of the fixed order
C4_Witness ==
    /\ Len(trace) = 3
    /\ trace[1] = [op |-> "cp_tdi_approximation", exc |-> "none"]
    /\ trace[2] = [op |-> "ccc_ustat", exc |-> "none"]
    /\ trace[3] = [op |-> "ccc_approximation", exc |-> "none"]
    /\ DOMAIN attrs = AllEstimators

---------------------------------------------------------------------------
(* C5 *)

\* C5: a call of a procedure that was already called on the instance, other
\* calls in between or not, leaves the stored Estimators as they were, and
\* ends as the earlier call ended.
C5_Idempotent ==
    [][\A p \in Procs :
           (IsCall(p) /\ \E i \in 1..Len(trace) : trace[i].op = p)
               => /\ attrs' = attrs
                  /\ \A i \in 1..Len(trace) :
                         trace[i].op = p => trace[i].exc = trace'[Len(trace')].exc]_vars

\* cp_tdi_approximation succeeded twice, ccc_ustat in between
C5_Witness ==
    /\ Len(trace) = 3
    /\ trace[1] = [op |-> "cp_tdi_approximation", exc |-> "none"]
    /\ trace[2] = [op |-> "ccc_ustat", exc |-> "none"]
    /\ trace[3] = [op |-> "cp_tdi_approximation", exc |-> "none"]

---------------------------------------------------------------------------
(* C6 *)

LowerStatistics == {"acc", "rho", "ccc", "ccc_ustat", "cp"}

UpperStatistics == {"msd", "tdi"}

\* C6: every stored Estimator with a defined limit has the side its statistic
\* fixes: Lower for acc, rho, ccc, ccc_ustat, cp; Upper for msd and tdi, the
\* limit of tdi being derived from the stored Upper limit of msd.
C6_LimitDirection ==
    /\ \A k \in DOMAIN attrs :
           Defined(attrs[k].limit) =>
               /\ attrs[k].name \in LowerStatistics \cup UpperStatistics
               /\ attrs[k].name \in LowerStatistics => Direction(attrs[k].limit) = "Lower"
               /\ attrs[k].name \in UpperStatistics => Direction(attrs[k].limit) = "Upper"
    /\ "_tdi" \in DOMAIN attrs =>
           /\ "_msd" \in DOMAIN attrs
           /\ attrs["_tdi"].limit.args[2] = attrs["_msd"].limit

\* every Estimator is stored, seven of them with a limit
C6_Witness ==
    /\ DOMAIN attrs = AllEstimators
    /\ Cardinality({k \in DOMAIN attrs : Defined(attrs[k].limit)}) = 7

---------------------------------------------------------------------------
(* C7 *)

\* C7: the table of a show() that completed has the rows acc, rho, ccc,
\* ccc_ustat, msd, rbs, cp, tdi and the columns estimator, variance, limit,
\* criterion, allowance; criterion is set on cp (delta) and tdi (pi) only,
\* allowance on ccc, ccc_ustat, rbs, cp, tdi only, and both are NaN elsewhere.
C7_TableShape ==
    (trace # <<>> /\ Last.op = "show" /\ Last.exc = "none") =>
        /\ res.set
        /\ res.columns = <<"estimator", "variance", "limit", "criterion", "allowance">>
        /\ [i \in 1..Len(res.rows) |-> res.rows[i].key]
               = <<"acc", "rho", "ccc", "ccc_ustat", "msd", "rbs", "cp", "tdi">>
        /\ \A i \in 1..Len(res.rows) :
               LET r == res.rows[i]
               IN  /\ Defined(r.cells["criterion"]) <=> r.key \in {"cp", "tdi"}
                   /\ Defined(r.cells["allowance"])
                          <=> r.key \in {"ccc", "ccc_ustat", "rbs", "cp", "tdi"}
                   /\ r.key = "cp" => r.cells["criterion"] = Rat("", delta_criterion, 100)
                   /\ r.key = "tdi" => r.cells["criterion"] = Rat("", pi_criterion, 100)

\* a completed show() with criteria other than the defaults
C7_Witness ==
    /\ trace # <<>> /\ Last.op = "show" /\ Last.exc = "none"
    /\ delta_criterion # CP_DELTA
    /\ Len(res.rows) = 8

---------------------------------------------------------------------------
(* C8 *)

\* C8: on non-degenerate samples ccc_ustat succeeds for n = 3 and the two
\* other procedures for n = 4; with n one less (2, and 3) the procedure
\* fails with InvalidSampleSize and stores no Estimator.
C8_SampleSizeBoundary ==
    \A i \in 1..Len(trace) :
        LET c == trace[i]
        IN  /\ (c.op = "ccc_ustat" /\ n = 3 /\ NonDegenerate) => c.exc = "none"
            /\ (c.op \in Procs \ {"ccc_ustat"} /\ n = 4 /\ NonDegenerate)
                   => c.exc = "none"
            /\ (c.op = "ccc_ustat" /\ n = 2)
                   => c.exc = "InvalidSampleSize" /\ Own(c.op) \cap DOMAIN attrs = {}
            /\ (c.op \in Procs \ {"ccc_ustat"} /\ n = 3)
                   => c.exc = "InvalidSampleSize" /\ Own(c.op) \cap DOMAIN attrs = {}

---------------------------------------------------------------------------
(* C9 *)

\* C9: a call of a procedure changes none but its own Estimators and leaves
\* the table alone; no call, show() included, changes x, y, n or the
\* criteria, and show() changes no Estimator.
C9_Frame ==
    [][/\ \A p \in Procs :
              IsCall(p) =>
                  /\ \A k \in (DOMAIN attrs \cup DOMAIN attrs') \ Own(p) :
                         k \in DOMAIN attrs /\ k \in DOMAIN attrs' /\ attrs'[k] = attrs[k]
                  /\ res' = res
       /\ IsCall("show") => attrs' = attrs
       /\ <<x, y, n, delta_criterion, pi_criterion>>'
              = <<x, y, n, delta_criterion, pi_criterion>>]_vars

\* ccc_ustat succeeded on an instance that held the results of the two others
C9_Witness ==
    /\ Len(trace) = 3
    /\ trace[1] = [op |-> "ccc_approximation", exc |-> "none"]
    /\ trace[2] = [op |-> "cp_tdi_approximation", exc |-> "none"]
    /\ trace[3] = [op |-> "ccc_ustat", exc |-> "none"]
    /\ DOMAIN attrs = AllEstimators

---------------------------------------------------------------------------
(* C10 *)

=============================================================================
